---- MODULE Spec2Model ----
(***************************************************************************)
(* Inverted index with permuterm wildcard support (assignment_2) and the   *)
(* plain inverted index (assignment_1).  Strings are sequences of one-     *)
(* character strings; tweet ids are strings of digits, written as          *)
(* sequences of digit values and compared lexicographically as Python      *)
(* compares str.                                                           *)
(***************************************************************************)
EXTENDS Integers, Sequences, FiniteSets, TLC

\* ---------------------------------------------------------------- bounds
MaxRows == 3
MaxTokens == 2
MaxLists == 3
MaxPatternLen == 3

\* a row needs at least this many tab-separated fields to be indexed
MinFields == 5

\* ---------------------------------------------------------------- inputs
Range(s) == {s[i] : i \in 1..Len(s)}

SeqsUpTo(S, n) == UNION {[1..k -> S] : k \in 0..n}

\* tweet ids of the corpus: "10", "9"
DocIDs == {<<1, 0>>, <<9>>}

\* whitespace-separated tokens of the tweet texts: a  A-b  -
CorpusTokens == {<<"a">>, <<"A", "-", "b">>, <<"-">>}

TokenLists == SeqsUpTo(CorpusTokens, MaxTokens)

RowLens == {MinFields - 1, MinFields}

\* the query calls made on the index, in the shapes of the driver's list (a
\* wildcard on the left, on the right, in the middle, on both sides, ANDed with
\* literals), and the calls with no term, one term, three terms and a term of punctuation only
Lit == <<"A">>
Right == <<"a", "*">>
Left == <<"*", "b">>
Middle == <<"a", "*", "a">>
Both == <<"*", "a", "*">>
Dash == <<"-">>

Queries ==
    {<<>>,
     <<Lit>>, <<Right>>, <<Left>>, <<Middle>>, <<Both>>, <<Dash>>,
     <<Right, Lit>>, <<Left, Lit>>, <<Lit, Left>>, <<Right, Left>>, <<Left, Right>>,
     <<Lit, Middle>>, <<Middle, Lit>>, <<Lit, Both>>,
     <<Right, Lit, Left>>, <<Left, Right, Lit>>}

\* ids and lists for the intersection chain: "1", "10", "9"
ChainIDs == {<<1>>, <<1, 0>>, <<9>>}

\* ---------------------------------------------------------------- state
VARIABLES
    version,             \* 1: assignment_1.py, 2: assignment_2.py
    pc,                  \* "indexing" (inside index()), "querying" (after it)
    row_number,          \* rows read so far by index()
    dictionary,          \* term -> <<term, size, pointer>>
    postings_lists,      \* pointer -> chain of document ids, head first
    posting_id_counter,  \* next free pointer
    permuterm_index,     \* rotation -> set of terms
    lastTerms,           \* arguments of the most recent query call
    lastOutcome,         \* what that call returned or raised, and what it printed
    lists,               \* intersection chain: the sorted lists
    pos,                 \* intersection chain: lists consumed so far
    result               \* intersection chain: accumulated result

indexVars == <<dictionary, postings_lists, posting_id_counter, permuterm_index>>
queryVars == <<lastTerms, lastOutcome>>
chainVars == <<lists, pos, result>>
vars == <<version, pc, row_number, dictionary, postings_lists,
          posting_id_counter, permuterm_index, lastTerms, lastOutcome,
          lists, pos, result>>

\* ---------------------------------------------------------------- strings
lower(c) == CASE c = "A" -> "a" [] c = "B" -> "b" [] OTHER -> c

isalnum(c) == c \in {"a", "b", "A", "B"}

normalize(term, keep_wildcards) ==
    LET lowered == [i \in 1..Len(term) |-> lower(term[i])]
    IN  SelectSeq(lowered, LAMBDA c : isalnum(c) \/ (keep_wildcards /\ c = "*"))

\* str.find: 0-based index of the first occurrence, -1 when absent
find(s, c) ==
    IF c \in Range(s)
    THEN (CHOOSE i \in 1..Len(s) : s[i] = c /\ \A j \in 1..(i - 1) : s[j] # c) - 1
    ELSE -1

RECURSIVE rstrip(_, _)
rstrip(s, c) ==
    IF s # <<>> /\ s[Len(s)] = c THEN rstrip(SubSeq(s, 1, Len(s) - 1), c) ELSE s

startswith(s, prefix) ==
    Len(prefix) <= Len(s) /\ SubSeq(s, 1, Len(prefix)) = prefix

\* Python's < on str: lexicographic by code point, a proper prefix is smaller
RECURSIVE StrLess(_, _)
StrLess(x, y) ==
    IF y = <<>> THEN FALSE
    ELSE IF x = <<>> THEN TRUE
    ELSE IF x[1] # y[1] THEN x[1] < y[1]
    ELSE StrLess(Tail(x), Tail(y))

\* sorted() on a list: ascending, duplicates kept
RECURSIVE insert_sorted(_, _)
insert_sorted(x, s) ==
    IF s = <<>> THEN <<x>>
    ELSE IF StrLess(x, Head(s)) THEN <<x>> \o s
    ELSE <<Head(s)>> \o insert_sorted(x, Tail(s))

\* mutant: the list is used in the order it came in
sorted_skipped(s) == s

RECURSIVE sorted(_)
sorted(s) == IF s = <<>> THEN <<>> ELSE insert_sorted(Head(s), sorted(Tail(s)))

\* list(a_set) / iteration over a set: the elements in some order
RECURSIVE list(_)
list(S) ==
    IF S = {} THEN <<>>
    ELSE LET x == CHOOSE y \in S : TRUE IN <<x>> \o list(S \ {x})

\* ---------------------------------------------------------------- build
\* mutant: the rotations are counted before the end symbol is appended
generate_permuterms_short(term) ==
    LET t == Append(term, "$")
    IN  [i \in 1..Len(term) |-> SubSeq(t, i, Len(t)) \o SubSeq(t, 1, i - 1)]

generate_permuterms(term) ==
    LET t == Append(term, "$")
    IN  [i \in 1..Len(t) |-> SubSeq(t, i, Len(t)) \o SubSeq(t, 1, i - 1)]

RECURSIVE register(_, _, _)
register(pidx, permuterms, term) ==
    IF permuterms = <<>> THEN pidx
    ELSE LET p == Head(permuterms)
             added == IF p \in DOMAIN pidx
                      THEN [pidx EXCEPT ![p] = @ \cup {term}]
                      ELSE [k \in DOMAIN pidx \cup {p} |->
                                IF k = p THEN {term} ELSE pidx[k]]
         IN  register(added, Tail(permuterms), term)

\* first sight of a term: a new empty chain, a zero size, the next pointer
ensure_term(ix, term) ==
    IF term \in DOMAIN ix.dictionary THEN ix
    ELSE LET pointer == ix.posting_id_counter
         IN  [ix EXCEPT
                !.postings_lists =
                    [q \in DOMAIN ix.postings_lists \cup {pointer} |->
                        IF q = pointer THEN <<>> ELSE ix.postings_lists[q]],
                !.dictionary =
                    [t \in DOMAIN ix.dictionary \cup {term} |->
                        IF t = term THEN <<term, 0, pointer>> ELSE ix.dictionary[t]],
                !.posting_id_counter = pointer + 1]

\* mutant: the head is not compared, every call pushes a node
append_document_always(ix, term, tweet_id) ==
    LET term_data == ix.dictionary[term]
        pointer == term_data[3]
        current_posting == ix.postings_lists[pointer]
    IN  [ix EXCEPT
            !.postings_lists[pointer] = <<tweet_id>> \o current_posting,
            !.dictionary[term] = <<term, term_data[2] + 1, pointer>>]

\* push a new head unless the head already holds this tweet id
append_document(ix, term, tweet_id) ==
    LET term_data == ix.dictionary[term]
        pointer == term_data[3]
        current_posting == ix.postings_lists[pointer]
    IN  IF current_posting = <<>> \/ Head(current_posting) # tweet_id
        THEN [ix EXCEPT
                !.postings_lists[pointer] = <<tweet_id>> \o current_posting,
                !.dictionary[term] = <<term, term_data[2] + 1, pointer>>]
        ELSE ix

\* body of the loop over the tokens of one tweet
index_term(ix, term, tweet_id, v) ==
    IF v = 1
    THEN append_document(ensure_term(ix, term), term, tweet_id)
    ELSE IF term # <<>>
         THEN LET reg == [ix EXCEPT !.permuterm_index =
                              register(@, generate_permuterms(term), term)]
              IN  append_document(ensure_term(reg, term), term, tweet_id)
         ELSE ix

RECURSIVE index_tokens(_, _, _, _)
index_tokens(ix, tokens, tweet_id, v) ==
    IF tokens = <<>> THEN ix
    ELSE index_tokens(index_term(ix, Head(tokens), tweet_id, v),
                      Tail(tokens), tweet_id, v)

\* body of the loop over the rows of the file
index_row(ix, nfields, tweet_id, text, v) ==
    IF nfields < MinFields THEN ix
    ELSE LET tokens == [i \in 1..Len(text) |-> normalize(text[i], FALSE)]
         IN  index_tokens(ix, tokens, tweet_id, v)

\* ---------------------------------------------------------------- query
\* mutant: ids already yielded are not suppressed
RECURSIVE iterate_all(_, _)
iterate_all(current, seen_ids) ==
    IF current = <<>> THEN <<>>
    ELSE <<Head(current)>> \o iterate_all(Tail(current), seen_ids \cup {Head(current)})

RECURSIVE iterate(_, _)
iterate(current, seen_ids) ==
    IF current = <<>> THEN <<>>
    ELSE IF Head(current) \notin seen_ids
         THEN <<Head(current)>> \o iterate(Tail(current), seen_ids \cup {Head(current)})
         ELSE iterate(Tail(current), seen_ids)

postings_list_iterator_all(head) == iterate_all(head, {})

postings_list_iterator(head) == iterate(head, {})

\* mutant: on a smaller left id the right list is advanced
RECURSIVE intersect_loop_wrong_side(_, _, _)
intersect_loop_wrong_side(l1, l2, acc) ==
    IF l1 = <<>> \/ l2 = <<>> THEN acc
    ELSE IF Head(l1) = Head(l2)
         THEN intersect_loop_wrong_side(Tail(l1), Tail(l2), Append(acc, Head(l1)))
         ELSE intersect_loop_wrong_side(l1, Tail(l2), acc)

RECURSIVE intersect_loop(_, _, _)
intersect_loop(l1, l2, acc) ==
    IF l1 = <<>> \/ l2 = <<>> THEN acc
    ELSE IF Head(l1) = Head(l2)
         THEN intersect_loop(Tail(l1), Tail(l2), Append(acc, Head(l1)))
         ELSE IF StrLess(Head(l1), Head(l2))
              THEN intersect_loop(Tail(l1), l2, acc)
              ELSE intersect_loop(l1, Tail(l2), acc)

intersect_wrong_side(list1, list2) == intersect_loop_wrong_side(list1, list2, <<>>)

intersect(list1, list2) == intersect_loop(list1, list2, <<>>)

\* mutant: the end symbol is not appended to the pattern before it is rotated
expand_wildcard_no_dollar(term, pidx) ==
    LET index_of_star == find(term, "*")
    IN  IF index_of_star = -1 THEN {term}
        ELSE LET rotated == SubSeq(term, index_of_star + 2, Len(term))
                            \o SubSeq(term, 1, index_of_star + 1)
                 s == rstrip(rotated, "*")
             IN  UNION {pidx[permuterm] :
                          permuterm \in {k \in DOMAIN pidx : startswith(k, s)}}

expand_wildcard(term, pidx) ==
    LET term_with_dollar == Append(term, "$")
        index_of_star == find(term, "*")
    IN  IF index_of_star = -1 THEN {term}
        ELSE LET rotated ==
                     SubSeq(term_with_dollar, index_of_star + 2, Len(term_with_dollar))
                     \o SubSeq(term_with_dollar, 1, index_of_star + 1)
                 s == rstrip(rotated, "*")
             IN  UNION {pidx[permuterm] :
                          permuterm \in {k \in DOMAIN pidx : startswith(k, s)}}

Returned(value, printed) == [kind |-> "returned", value |-> value, stdout |-> printed]
Raised(exception) == [kind |-> exception, value |-> <<>>, stdout |-> <<>>]
NoCall == [kind |-> "none", value |-> <<>>, stdout |-> <<>>]

\* assignment_2: result = postings_lists[0]; intersect the rest, stop on empty
RECURSIVE intersect_rest(_, _, _)
intersect_rest(acc, ls, early_exit) ==
    IF ls = <<>> THEN acc
    ELSE LET r == intersect(acc, Head(ls))
         IN  IF early_exit /\ r = <<>> THEN r
             ELSE intersect_rest(r, Tail(ls), early_exit)

\* the union of the deduplicated chains of the candidates present in the dictionary
term_postings(terms, dict, plists) ==
    UNION {Range(postings_list_iterator(plists[dict[t][3]])) :
             t \in terms \cap DOMAIN dict}

query2(terms, dict, plists, pidx) ==
    LET normalized_terms == [i \in 1..Len(terms) |-> normalize(terms[i], TRUE)]
        n == Len(normalized_terms)
        expanded(i) == IF "*" \in Range(normalized_terms[i])
                       THEN expand_wildcard(normalized_terms[i], pidx)
                       ELSE {normalized_terms[i]}
        gathered == [i \in 1..n |-> sorted(list(term_postings(expanded(i), dict, plists)))]
    IN  IF \E i \in 1..n : expanded(i) = {} THEN Returned(<<>>, <<>>)
        ELSE IF \E i \in 1..n : gathered[i] = <<>> THEN Returned(<<>>, <<>>)
        ELSE IF n = 0 THEN Raised("IndexError")
        ELSE Returned(intersect_rest(gathered[1], Tail(gathered), TRUE), <<>>)

query1(terms, dict, plists) ==
    LET normalized_terms == [i \in 1..Len(terms) |-> normalize(terms[i], FALSE)]
        n == Len(normalized_terms)
        missing == {i \in 1..n : normalized_terms[i] \notin DOMAIN dict}
        gathered == [i \in 1..n |->
                       sorted(postings_list_iterator(plists[dict[normalized_terms[i]][3]]))]
    IN  IF missing # {}
        THEN LET i == CHOOSE j \in missing : \A k \in missing : j <= k
             IN  Returned(<<>>, <<normalized_terms[i]>>)
        ELSE IF n = 0 THEN Raised("IndexError")
        ELSE Returned(intersect_rest(gathered[1], Tail(gathered), FALSE), <<>>)

\* ---------------------------------------------------------------- actions
Index == [dictionary |-> dictionary, postings_lists |-> postings_lists,
          posting_id_counter |-> posting_id_counter,
          permuterm_index |-> permuterm_index]

Init ==
    /\ version \in {1, 2}
    /\ pc = "indexing"
    /\ row_number = 0
    /\ dictionary = <<>>
    /\ postings_lists = <<>>
    /\ posting_id_counter = 0
    /\ permuterm_index = <<>>
    /\ lastTerms = <<>>
    /\ lastOutcome = NoCall
    /\ lists = <<>>
    /\ pos = 0
    /\ result = <<>>

\* one iteration of the loop over the rows of the corpus file
IndexRow(nfields, tweet_id, text) ==
    /\ pc = "indexing"
    /\ row_number < MaxRows
    /\ row_number' = row_number + 1
    /\ LET ix == index_row(Index, nfields, tweet_id, text, version)
       IN  /\ dictionary' = ix.dictionary
           /\ postings_lists' = ix.postings_lists
           /\ posting_id_counter' = ix.posting_id_counter
           /\ permuterm_index' = ix.permuterm_index
    /\ UNCHANGED <<version, pc, queryVars, chainVars>>

\* the reader is exhausted: index() returns
EndOfFile ==
    /\ pc = "indexing"
    /\ pc' = "querying"
    /\ UNCHANGED <<version, row_number, indexVars, queryVars, chainVars>>

\* mutant: looking a term up creates its dictionary entry
Query_creating(terms) ==
    /\ pc = "querying"
    /\ lastTerms' = terms
    /\ lastOutcome' = IF version = 1
                      THEN query1(terms, dictionary, postings_lists)
                      ELSE query2(terms, dictionary, postings_lists, permuterm_index)
    /\ LET ix == IF terms = <<>> THEN Index
                 ELSE ensure_term(Index, normalize(terms[1], version = 2))
       IN  /\ dictionary' = ix.dictionary
           /\ postings_lists' = ix.postings_lists
           /\ posting_id_counter' = ix.posting_id_counter
    /\ UNCHANGED <<version, pc, row_number, permuterm_index, chainVars>>

Query(terms) ==
    /\ pc = "querying"
    /\ lastTerms' = terms
    /\ lastOutcome' = IF version = 1
                      THEN query1(terms, dictionary, postings_lists)
                      ELSE query2(terms, dictionary, postings_lists, permuterm_index)
    /\ UNCHANGED <<version, pc, row_number, indexVars, chainVars>>

Next ==
    \/ \E nfields \in RowLens, tweet_id \in DocIDs, text \in TokenLists :
          IndexRow(nfields, tweet_id, text)
    \/ EndOfFile
    \/ \E terms \in Queries : Query(terms)

Spec == Init /\ [][Next]_vars

\* ------------------------------------------------- the intersection chain
\* query's last loop on its own, fed with any sorted duplicate-free lists
SortedLists == {sorted(list(S)) : S \in SUBSET ChainIDs}

InitChain ==
    /\ version = 2
    /\ pc = "intersecting"
    /\ row_number = 0
    /\ dictionary = <<>>
    /\ postings_lists = <<>>
    /\ posting_id_counter = 0
    /\ permuterm_index = <<>>
    /\ lastTerms = <<>>
    /\ lastOutcome = NoCall
    /\ lists \in UNION {[1..k -> SortedLists] : k \in 1..MaxLists}
    /\ pos = 1
    /\ result = lists[1]

\* result = self.intersect(result, postings); if not result: break
IntersectStep ==
    /\ pc = "intersecting"
    /\ pos < Len(lists)
    /\ result' = intersect(result, lists[pos + 1])
    /\ pos' = pos + 1
    /\ pc' = IF result' = <<>> THEN "returned" ELSE "intersecting"
    /\ UNCHANGED <<version, row_number, indexVars, queryVars, lists>>

\* the loop ran out of lists: return result
ReturnResult ==
    /\ pc = "intersecting"
    /\ pos = Len(lists)
    /\ pc' = "returned"
    /\ UNCHANGED <<version, row_number, indexVars, queryVars, chainVars>>

NextChain == IntersectStep \/ ReturnResult

SpecChain == InitChain /\ [][NextChain]_vars

\* ------------------------------------------------------------ properties
Called == pc = "querying" /\ lastOutcome.kind # "none"

\* the query terms as the running version normalizes them
Normalized(terms) == [i \in 1..Len(terms) |-> normalize(terms[i], version = 2)]

Stars(t) == Cardinality({i \in 1..Len(t) : t[i] = "*"})

IsTerm(t) == t \in DOMAIN dictionary

Chain(t) == postings_lists[dictionary[t][3]]

\* the indexed terms a single-wildcard pattern stands for: prefix, suffix, no overlap
Matching(pattern) ==
    LET p == CHOOSE i \in 1..Len(pattern) : pattern[i] = "*"
        prefix == SubSeq(pattern, 1, p - 1)
        suffix == SubSeq(pattern, p + 1, Len(pattern))
    IN  {t \in DOMAIN dictionary :
            /\ Len(t) >= Len(pattern) - 1
            /\ SubSeq(t, 1, Len(prefix)) = prefix
            /\ SubSeq(t, Len(t) - Len(suffix) + 1, Len(t)) = suffix}

\* candidate term set of one normalized token
Candidates(t) == IF Stars(t) = 1 THEN Matching(t) ELSE {t}

\* documents in the chain of at least one candidate of the token
DocsOfToken(t) == {d \in DocIDs : \E c \in Candidates(t) : IsTerm(c) /\ d \in Range(Chain(c))}

StrictlyAscending(s) == \A i \in 1..(Len(s) - 1) : StrLess(s[i], s[i + 1])

\* C1: a query with at least one term, each holding at most one '*', returns a
\* strictly ascending list of exactly the documents that, for every token, are in
\* the chain of some candidate of that token (AND over tokens, union within one).
C1_QueryAnswer ==
    (Called /\ lastTerms # <<>>
            /\ \A i \in 1..Len(lastTerms) : Stars(Normalized(lastTerms)[i]) <= 1)
    => /\ lastOutcome.kind = "returned"
       /\ StrictlyAscending(lastOutcome.value)
       /\ Range(lastOutcome.value) =
             {d \in DocIDs : \A i \in 1..Len(lastTerms) :
                                 d \in DocsOfToken(Normalized(lastTerms)[i])}

\* a wildcard token with two candidates ANDed with a literal, two documents returned
C1_Witness ==
    /\ Called /\ version = 2 /\ Len(lastTerms) = 2
    /\ Stars(Normalized(lastTerms)[1]) = 1
    /\ Cardinality(Candidates(Normalized(lastTerms)[1])) = 2
    /\ Stars(Normalized(lastTerms)[2]) = 0
    /\ Len(lastOutcome.value) = 2

\* C2: a query holding a pattern with two or more '*' is rejected as InvalidQuery.
C2_MultiWildcardRejected ==
    (Called /\ version = 2
            /\ \E i \in 1..Len(lastTerms) : Stars(Normalized(lastTerms)[i]) >= 2)
    => lastOutcome.kind = "InvalidQuery"

\* C3: a query with zero terms is rejected as InvalidQuery, never a fault.
C3_EmptyQueryRejected ==
    (Called /\ lastTerms = <<>>) => lastOutcome.kind = "InvalidQuery"

\* what the caller gets back from a call: the value returned or the exception raised
Observable(outcome) == <<outcome.kind, outcome.value>>

\* a literal term that is not in the dictionary, or a wildcard that matches no term
HasUnmatchedToken(terms) ==
    \E i \in 1..Len(terms) :
        LET t == Normalized(terms)[i]
        IN  \/ Stars(t) = 0 /\ ~IsTerm(t)
            \/ Stars(t) = 1 /\ Matching(t) = {}

\* every token has a candidate in the dictionary, yet no document has them all
HasEmptyIntersection(terms) ==
    /\ terms # <<>>
    /\ \A i \in 1..Len(terms) :
          /\ Stars(Normalized(terms)[i]) <= 1
          /\ DocsOfToken(Normalized(terms)[i]) # {}
    /\ ~\E d \in DocIDs : \A i \in 1..Len(terms) : d \in DocsOfToken(Normalized(terms)[i])

\* C4: a query with a missing literal term or an unmatched wildcard returns an
\* empty result with an outcome the caller can tell apart from the outcome of a
\* query whose terms all exist and whose postings have an empty intersection.
C4_NotFoundDistinguished ==
    [][(Called /\ HasEmptyIntersection(lastTerms) /\ HasUnmatchedToken(lastTerms'))
       => /\ lastOutcome'.value = <<>>
          /\ Observable(lastOutcome') # Observable(lastOutcome)]_vars

\* the normalized patterns with exactly one '*'
OneStarPatterns ==
    {p \in UNION {[1..k -> {"a", "b", "*"}] : k \in 1..MaxPatternLen} : Stars(p) = 1}

\* C5: on every built index a pattern with exactly one '*' expands to exactly the
\* indexed terms that start with the text before the '*', end with the text after
\* it, and are long enough for the two not to overlap.
C5_ExpandIsPrefixSuffixMatch ==
    (version = 2 /\ pc = "querying")
    => \A p \in OneStarPatterns : expand_wildcard(p, permuterm_index) = Matching(p)

\* "*b" was queried and matched "ab" while "a" is indexed too; "a*a" does not
\* match "a" although "a" starts and ends with "a"
C5_Witness ==
    /\ Called /\ version = 2
    /\ lastTerms = <<Left>>
    /\ lastOutcome.value # <<>>
    /\ IsTerm(<<"a">>) /\ IsTerm(<<"a", "b">>)
    /\ expand_wildcard(<<"*", "b">>, permuterm_index) = {<<"a", "b">>}
    /\ expand_wildcard(<<"a", "*", "a">>, permuterm_index) = {}

\* the positions of a chain that hold the first occurrence of their id
FirstOccurrences(c) == {i \in 1..Len(c) : \A j \in 1..(i - 1) : c[j] # c[i]}

\* C6: walking any chain yields each id of the chain exactly once, in
\* head-to-tail order of first occurrence.
C6_IteratorDeduplicates ==
    \A h \in DOMAIN postings_lists :
        LET c == postings_lists[h]
            out == postings_list_iterator(c)
        IN  /\ Len(out) = Cardinality(Range(c))
            /\ Range(out) = Range(c)
            /\ \A k \in 1..Len(out) :
                  \E i \in FirstOccurrences(c) :
                      /\ out[k] = c[i]
                      /\ Cardinality({j \in FirstOccurrences(c) : j < i}) = k - 1

\* a queried term whose chain repeats an id below the head
C6_Witness ==
    /\ Called /\ lastOutcome.kind = "returned" /\ Len(lastOutcome.value) = 2
    /\ Len(lastTerms) = 1 /\ IsTerm(Normalized(lastTerms)[1])
    /\ LET c == Chain(Normalized(lastTerms)[1])
       IN  Len(c) = 3 /\ c[1] = c[3]

\* C7: appendDocument pushes a head node and adds one to the counter exactly when
\* the chain is empty or its head holds another id, and changes nothing otherwise;
\* a repeated call changes nothing, and the counter is the number of nodes.
C7_AppendDocument ==
    /\ \A t \in DOMAIN dictionary :
          /\ dictionary[t][2] = Len(Chain(t))
          /\ \A i \in 1..(Len(Chain(t)) - 1) : Chain(t)[i] # Chain(t)[i + 1]
          /\ \A tweet_id \in DocIDs :
                LET before == Chain(t)
                    ix == append_document(Index, t, tweet_id)
                    after == ix.postings_lists[ix.dictionary[t][3]]
                    push == before = <<>> \/ before[1] # tweet_id
                IN  /\ push => /\ after = <<tweet_id>> \o before
                               /\ ix.dictionary[t][2] = dictionary[t][2] + 1
                    /\ ~push => ix = Index
                    /\ \A u \in DOMAIN dictionary \ {t} :
                          /\ ix.dictionary[u] = dictionary[u]
                          /\ ix.postings_lists[dictionary[u][3]] = Chain(u)
                    /\ append_document(ix, t, tweet_id) = ix
    /\ \A t \in {normalize(tok, FALSE) : tok \in CorpusTokens} \ DOMAIN dictionary :
          \A tweet_id \in DocIDs :
              LET ix == append_document(ensure_term(Index, t), t, tweet_id)
              IN  /\ ix.postings_lists[ix.dictionary[t][3]] = <<tweet_id>>
                  /\ ix.dictionary[t][2] = 1

\* a term indexed from three rows, two of them consecutive with the same id
C7_Witness ==
    /\ row_number = 3
    /\ \E t \in DOMAIN dictionary : Len(Chain(t)) = 2 /\ dictionary[t][2] = 2
    /\ \E t \in DOMAIN dictionary : Len(Chain(t)) = 1

\* k is the rotation of t + '$' that starts at offset i, for some i in 0..len(t)
IsRotationOf(k, t) ==
    LET T == Append(t, "$")
    IN  /\ Len(k) = Len(T)
        /\ \E i \in 0..Len(t) :
              \A j \in 1..Len(k) : k[j] = T[((i + j - 1) % Len(T)) + 1]

\* C9: t is stored under key k exactly when t is a non-empty dictionary term and
\* k is a rotation of t + '$'; a term of length L is under exactly L + 1 keys, and
\* every term a wildcard expands to is in the dictionary.
C9_PermutermIndex ==
    version = 2
    => /\ \A k \in DOMAIN permuterm_index :
             permuterm_index[k] = {t \in DOMAIN dictionary : t # <<>> /\ IsRotationOf(k, t)}
       /\ \A t \in DOMAIN dictionary :
             /\ t # <<>>
             /\ Cardinality({k \in DOMAIN permuterm_index : t \in permuterm_index[k]})
                    = Len(t) + 1
       /\ \A p \in OneStarPatterns : expand_wildcard(p, permuterm_index) \subseteq DOMAIN dictionary

\* both terms are indexed, the empty token was seen and left out
C9_Witness ==
    /\ version = 2 /\ Called
    /\ DOMAIN dictionary = {<<"a">>, <<"a", "b">>}
    /\ Cardinality(DOMAIN permuterm_index) = 5
    /\ lastTerms = <<Right>>
    /\ Len(lastOutcome.value) = 2

\* C10: a query changes nothing of the index, whatever path it takes, and asking
\* the same query again gives the same outcome.
C10_QueryIsReadOnly ==
    [][pc = "querying"
       => /\ UNCHANGED indexVars
          /\ (Called /\ lastTerms' = lastTerms) => lastOutcome' = lastOutcome]_vars

\* a non-empty index on which a query with an unmatched wildcard was answered
C10_Witness ==
    /\ Called /\ version = 2
    /\ permuterm_index # <<>>
    /\ \E i \in 1..Len(lastTerms) :
          Stars(Normalized(lastTerms)[i]) = 1 /\ Matching(Normalized(lastTerms)[i]) = {}
    /\ lastOutcome = Returned(<<>>, <<>>)

\* the lists in another order
Orderings(n) == {f \in [1..n -> 1..n] : \A i, j \in 1..n : f[i] = f[j] => i = j}

\* C8: intersecting with an empty list gives the empty list, and the content of
\* the chained intersection is the same for every order of the lists.
C8_IntersectOrderIndependent ==
    /\ \A i \in 1..Len(lists) :
          intersect(lists[i], <<>>) = <<>> /\ intersect(<<>>, lists[i]) = <<>>
    /\ pc = "returned"
       => \A f \in Orderings(Len(lists)) :
             LET ls == [i \in 1..Len(lists) |-> lists[f[i]]]
             IN  Range(intersect_rest(ls[1], Tail(ls), TRUE)) = Range(result)

\* three lists with a common id, and an early stop before the last list
C8_Witness ==
    /\ pc = "returned" /\ Len(lists) = 3
    /\ pos = 2 /\ result = <<>>
    /\ lists[1] # <<>> /\ lists[2] # <<>> /\ Len(lists[3]) = 3

====
